---- MODULE Spec2Model ----
(***************************************************************************)
(* A model of src/code/genetic_algorithm.py (genetic_algorithm_uc.py is    *)
(* the same program without comments).                                     *)
(*                                                                         *)
(* Points are Python lists, which are mutable and shared by reference, so  *)
(* the model keeps a heap: every list variable of the program holds object *)
(* identities and the heap maps an identity to the coordinates stored      *)
(* there.  Coordinates are floats in the program; the model keeps them on  *)
(* the integer grid of [SEARCH_MIN, SEARCH_MAX].  Proportions and rates    *)
(* are rationals <<numerator, denominator>>.  Every random draw is a       *)
(* nondeterministic choice.                                                *)
(***************************************************************************)
EXTENDS Integers, Sequences, FiniteSets, TLC

VARIABLES
    POP_SIZE,        \* global POP_SIZE
    CROSS_RATE,      \* global CROSS_RATE
    MUTAT_RATE,      \* global MUTAT_RATE
    el_p,            \* genetic_algorithm parameter
    to_p,            \* genetic_algorithm parameter
    dim,             \* genetic_algorithm parameter
    epochs,          \* genetic_algorithm parameter
    function,        \* genetic_algorithm parameter (name of the fitness function)
    e,               \* loop variable of genetic_algorithm
    pc,              \* position of the run
    heap,            \* object identity -> coordinates
    population,      \* list of identities
    elites,          \* list of identities
    tournament,      \* local list of tournament_selection (kept until the next sort)
    t_n,             \* bound of tournament_selection's range(), fixed at loop entry
    mating_pool,     \* list of identities
    new_population,  \* local list of evolve
    best_fitness,    \* reported value
    init_best        \* best fitness of the initial population (history)

config == <<POP_SIZE, CROSS_RATE, MUTAT_RATE, el_p, to_p, dim, epochs, function>>
vars == <<POP_SIZE, CROSS_RATE, MUTAT_RATE, el_p, to_p, dim, epochs, function,
          e, pc, heap, population, elites, tournament, t_n, mating_pool,
          new_population, best_fitness, init_best>>

(***************************************************************************)
(* Bounds of the model.                                                    *)
(***************************************************************************)
\* the search space is [-SearchSpan, SearchSpan]
SearchSpan == 2
\* largest POP_SIZE of a run
MaxPopSize == 3
\* largest epochs of a run
MaxEpochs == 2
\* largest dimension handed to crossover alone
MaxCrossDim == 4

SEARCH_MIN == 0 - SearchSpan
SEARCH_MAX == SearchSpan

\* dimensions of a whole run
RunDims == {1, 2}

(***************************************************************************)
(* Rationals.                                                              *)
(***************************************************************************)
RatLeq(x, y) == x[1] * y[2] <= y[1] * x[2]
RatLess(x, y) == x[1] * y[2] < y[1] * x[2]

\* ceil(n * percent)
ceil(n, percent) == (n * percent[1] + percent[2] - 1) \div percent[2]

\* random.uniform(0.00, 1.00) is 0 + (1 - 0) * random() with random() in
\* [0, 1).  The draws followed at line 86 and at line 115:
CrossDraws == {<<0, 1>>, <<1, 4>>, <<3, 4>>}
MutatDraws == {<<1, 4>>, <<3, 4>>}

\* rates and proportions the runs are configured with
Rates == {<<0, 1>>, <<1, 2>>, <<1, 1>>}
EliteProportions == {<<0, 1>>, <<1, 4>>, <<1, 2>>, <<1, 1>>}
TournProportions == {<<1, 2>>, <<1, 1>>}

(***************************************************************************)
(* Sequences and the heap.                                                 *)
(***************************************************************************)
Range(s) == {s[i] : i \in DOMAIN s}

\* the identity the next allocation gets
Fresh(h) == CHOOSE i \in 1..(Cardinality(DOMAIN h) + 1) :
                /\ i \notin DOMAIN h
                /\ \A j \in 1..(i - 1) : j \in DOMAIN h

Alloc(h, point) == [i \in DOMAIN h \cup {Fresh(h)} |->
                       IF i \in DOMAIN h THEN h[i] ELSE point]

(***************************************************************************)
(* Fitness functions.                                                      *)
(***************************************************************************)
RECURSIVE SumStyb(_)
SumStyb(point) ==
    IF point = <<>> THEN 0
    ELSE LET d == Head(point)
         IN  (d * d * d * d - 16 * d * d + 5 * d) + SumStyb(Tail(point))

\* d^4 + 5d and 16d^2 are even for an integer d, so the half is exact
styb_tang(point) == SumStyb(point) \div 2

RECURSIVE sphere(_)
sphere(point) ==
    IF point = <<>> THEN 0
    ELSE Head(point) * Head(point) + sphere(Tail(point))

Functions == {"styb_tang", "sphere"}

Apply(fn, point) == IF fn = "styb_tang" THEN styb_tang(point) ELSE sphere(point)

\* sorted(ids, key=fn): Python's sort is stable
RECURSIVE InsertSorted(_, _, _, _)
InsertSorted(x, s, h, fn) ==
    IF s = <<>> THEN <<x>>
    ELSE IF Apply(fn, h[x]) <= Apply(fn, h[Head(s)]) THEN <<x>> \o s
    ELSE <<Head(s)>> \o InsertSorted(x, Tail(s), h, fn)

RECURSIVE sorted(_, _, _)
sorted(s, h, fn) ==
    IF s = <<>> THEN <<>>
    ELSE InsertSorted(Head(s), sorted(Tail(s), h, fn), h, fn)

\* the best fitness among the points of a list
BestOf(s, h, fn) ==
    CHOOSE v \in {Apply(fn, h[i]) : i \in Range(s)} :
        \A i \in Range(s) : v <= Apply(fn, h[i])

(***************************************************************************)
(* Random sources.                                                         *)
(***************************************************************************)
\* random.randint(a, b) and random.randrange(n): empty when there is nothing
\* to draw, which raises ValueError in the program
randint(a, b) == a..b

\* random.uniform(a, b) on the integer grid
uniform(a, b) == a..b

\* random.uniform(s_min*0.5, s_max*0.5) on the integer grid
uniform_half(s_min, s_max) ==
    {d \in s_min..s_max : s_min <= 2 * d /\ 2 * d <= s_max}

\* the coordinates initialize_population is seen to draw
InitDraws(min, max) == {x \in uniform(min, max) : x = min \/ x = max - 1}

(***************************************************************************)
(* initialize_population, elite_selection                                  *)
(***************************************************************************)
\* the heaps initialize_population(size, d, min, max) can build; the list it
\* returns is <<1, ..., size>>
initialize_population(size, d, min, max) ==
    [1..size -> [1..d -> InitDraws(min, max)]]

\* how many elites elite_selection takes
elite_count(pop, percent) == ceil(Len(pop), percent)

\* a selection that takes the other end of the sorted list
elite_selection_tail(pop, percent) ==
    SubSeq(pop, Len(pop) - elite_count(pop, percent) + 1, Len(pop))

elite_selection(pop, percent) == SubSeq(pop, 1, elite_count(pop, percent))

(***************************************************************************)
(* crossover: the set of outcomes over all random draws.  An outcome is    *)
(* the heap after the call and the identities of the two children, or      *)
(* raised = TRUE when random.randint has an empty range.                   *)
(***************************************************************************)
Raised == [raised |-> TRUE, heap |-> <<>>, child_a |-> 0, child_b |-> 0]

\* a skipped recombination that returns the parents themselves
DeepCopyPair_Alias(h, parent_a, parent_b) ==
    [raised |-> FALSE, heap |-> h, child_a |-> parent_a, child_b |-> parent_b]

\* copy.deepcopy([parent_a, parent_b]): one copy per distinct object
DeepCopyPair(h, parent_a, parent_b) ==
    LET h1 == Alloc(h, h[parent_a])
        a  == Fresh(h)
    IN  IF parent_a = parent_b
        THEN [raised |-> FALSE, heap |-> h1, child_a |-> a, child_b |-> a]
        ELSE [raised |-> FALSE, heap |-> Alloc(h1, h[parent_b]),
              child_a |-> a, child_b |-> Fresh(h1)]

\* the loop of lines 91-99 for one pivot (Python index i is i - 1 here)
Recombine(h, parent_a, parent_b, pivot) ==
    LET n  == Len(h[parent_a])
        ca == [i \in 1..n |-> IF i - 1 < pivot THEN h[parent_a][i] ELSE h[parent_b][i]]
        cb == [i \in 1..n |-> IF i - 1 < pivot THEN h[parent_b][i] ELSE h[parent_a][i]]
        h1 == Alloc(h, ca)
    IN  [raised |-> FALSE, heap |-> Alloc(h1, cb),
         child_a |-> Fresh(h), child_b |-> Fresh(h1)]

\* a pivot drawn from the whole index range
PivotRange_Wide(parent) == randint(0, Len(parent))

\* the pivots line 90 draws from
PivotRange(parent) == randint(1, Len(parent) - 1)

crossover(h, parent_a, parent_b, rate) ==
    LET skip == {DeepCopyPair(h, parent_a, parent_b) :
                    u \in {u \in CrossDraws : ~RatLess(u, rate)}}
        pivots == PivotRange(h[parent_a])
        cross == IF \A u \in CrossDraws : ~RatLess(u, rate) THEN {}
                 ELSE IF pivots = {} THEN {Raised}
                 ELSE {Recombine(h, parent_a, parent_b, p) : p \in pivots}
    IN  skip \cup cross

(***************************************************************************)
(* mutation: the set of heaps after mutation(child, s_min, s_max), which   *)
(* changes the list in place and returns it.                               *)
(***************************************************************************)
Max(a, b) == IF a >= b THEN a ELSE b
Min(a, b) == IF a <= b THEN a ELSE b

\* a clamp that forgets the lower bound
Clamp_NoMin(x, s_min, s_max) == Min(x, s_max)

\* lines 119-123
Clamp(x, s_min, s_max) == Min(Max(x, s_min), s_max)

\* the values one coordinate can have after one pass of the loop body
MutateGene(x, s_min, s_max, rate) ==
    {x : u \in {u \in MutatDraws : ~RatLeq(u, rate)}}
    \cup {Clamp(x + diff, s_min, s_max) :
            diff \in IF \E u \in MutatDraws : RatLeq(u, rate)
                     THEN uniform_half(s_min, s_max) ELSE {}}

RECURSIVE MutateFrom(_, _, _, _, _)
MutateFrom(point, i, s_min, s_max, rate) ==
    IF i > Len(point) THEN {point}
    ELSE UNION {MutateFrom([point EXCEPT ![i] = x], i + 1, s_min, s_max, rate) :
                    x \in MutateGene(point[i], s_min, s_max, rate)}

mutation(h, child, s_min, s_max, rate) ==
    {[h EXCEPT ![child] = p] : p \in MutateFrom(h[child], 1, s_min, s_max, rate)}

(***************************************************************************)
(* The run: genetic_algorithm, one action per stage and per loop pass.     *)
(***************************************************************************)
\* sorted() returns a new list of the same objects.  Object identities are
\* observed by no code, so the model renumbers the sorted population
\* 1..n here and drops the objects and lists no later statement reads.
Renumbered(s, h) == [i \in 1..Len(s) |-> h[s[i]]]
Indices(s) == [i \in 1..Len(s) |-> i]

\* state after line 19.  Runs in more than one dimension are followed
\* with mutation switched off, or with the smallest population for one
\* generation.
Init ==
    /\ POP_SIZE \in 2..MaxPopSize
    /\ CROSS_RATE \in Rates
    /\ MUTAT_RATE \in Rates
    /\ el_p \in EliteProportions
    /\ to_p \in TournProportions
    /\ dim \in RunDims
    /\ dim = 1 \/ MUTAT_RATE = <<0, 1>> \/ (POP_SIZE = 2 /\ epochs = 1)
    /\ epochs \in 1..MaxEpochs
    /\ function \in Functions
    /\ e = 1
    /\ pc = "SORT"
    /\ heap \in initialize_population(POP_SIZE, dim, SEARCH_MIN, SEARCH_MAX)
    /\ population = Indices(heap)
    /\ elites = <<>>
    /\ tournament = <<>>
    /\ t_n = 0
    /\ mating_pool = <<>>
    /\ new_population = <<>>
    /\ best_fitness = "None"
    /\ init_best = BestOf(population, heap, function)

\* lines 21-22
Sort ==
    /\ pc = "SORT"
    /\ LET s == sorted(population, heap, function)
       IN  /\ heap' = Renumbered(s, heap)
           /\ population' = Indices(s)
    /\ mating_pool' = <<>>
    /\ elites' = <<>>
    /\ tournament' = <<>>
    /\ new_population' = <<>>
    /\ t_n' = 0
    /\ pc' = "SELECT_ELITES"
    /\ UNCHANGED <<config, e, best_fitness, init_best>>

\* lines 24-26; population[i] past the end raises IndexError
SelectElites ==
    /\ pc = "SELECT_ELITES"
    /\ IF elite_count(population, el_p) > Len(population)
       THEN /\ pc' = "IndexError"
            /\ UNCHANGED <<elites, population>>
       ELSE /\ elites' = elite_selection(population, el_p)
            /\ population' = SubSeq(population, Len(elites') + 1, Len(population))
            /\ pc' = "SELECT_TOURNAMENT"
    /\ UNCHANGED <<config, e, heap, tournament, t_n, mating_pool, new_population,
                   best_fitness, init_best>>

\* line 28, the call: lines 154, 156 (the range is computed once)
TournamentEnter ==
    /\ pc = "SELECT_TOURNAMENT"
    /\ tournament' = <<>>
    /\ t_n' = ceil(Len(population), to_p)
    /\ pc' = "TOURNAMENT_LOOP"
    /\ UNCHANGED <<config, e, heap, population, elites, mating_pool, new_population,
                   best_fitness, init_best>>

\* a draw that leaves the entrant in the list
pop_keep(pop_list, random_idx) == <<pop_list[random_idx + 1], pop_list>>

\* population.pop(random_idx), as (the entrant, the list left); Python's
\* index random_idx is random_idx + 1 here
pop(pop_list, random_idx) ==
    <<pop_list[random_idx + 1],
      SubSeq(pop_list, 1, random_idx) \o SubSeq(pop_list, random_idx + 2, Len(pop_list))>>

\* lines 157-158, one pass of the loop
TournamentPop ==
    /\ pc = "TOURNAMENT_LOOP"
    /\ Len(tournament) < t_n
    /\ IF randint(0, Len(population) - 1) = {}
       THEN /\ pc' = "ValueError"
            /\ UNCHANGED <<tournament, population>>
       ELSE /\ \E random_idx \in randint(0, Len(population) - 1) :
                 /\ tournament' = Append(tournament, pop(population, random_idx)[1])
                 /\ population' = pop(population, random_idx)[2]
            /\ pc' = "TOURNAMENT_LOOP"
    /\ UNCHANGED <<config, e, heap, elites, t_n, mating_pool, new_population,
                   best_fitness, init_best>>

\* the fitness tournament_selection sorts by (line 159)
TournamentKey == "styb_tang"

\* lines 159-160, then lines 30 and 32; tournament[0] of an empty list
\* raises IndexError
TournamentReturn ==
    /\ pc = "TOURNAMENT_LOOP"
    /\ Len(tournament) >= t_n
    /\ tournament' = sorted(tournament, heap, TournamentKey)
    /\ IF tournament' = <<>>
       THEN /\ pc' = "IndexError"
            /\ UNCHANGED mating_pool
       ELSE /\ mating_pool' = Append(mating_pool \o elites, tournament'[1])
            /\ pc' = "EVOLVE"
    /\ UNCHANGED <<config, e, heap, population, elites, t_n, new_population,
                   best_fitness, init_best>>

\* line 34, the call: lines 51-52
EvolveEnter ==
    /\ pc = "EVOLVE"
    /\ new_population' = <<>> \o elites
    /\ pc' = "EVOLVE_LOOP"
    /\ UNCHANGED <<config, e, heap, population, elites, tournament, t_n, mating_pool,
                   best_fitness, init_best>>

\* lines 55-72, one pass of the loop; the indices are Python's plus one
EvolveStep ==
    /\ pc = "EVOLVE_LOOP"
    /\ Len(new_population) < POP_SIZE
    /\ IF randint(1, Len(mating_pool)) = {}
       THEN /\ pc' = "ValueError"
            /\ UNCHANGED <<heap, new_population>>
       ELSE
       \E p_a_idx \in randint(1, Len(mating_pool)), p_b_idx \in randint(1, Len(mating_pool)) :
         IF p_a_idx = p_b_idx
         THEN UNCHANGED <<pc, heap, new_population>>
         ELSE \E c \in crossover(heap, mating_pool[p_a_idx], mating_pool[p_b_idx], CROSS_RATE) :
                IF c.raised
                THEN /\ pc' = "ValueError"
                     /\ UNCHANGED <<heap, new_population>>
                ELSE \E h1 \in mutation(c.heap, c.child_a, SEARCH_MIN, SEARCH_MAX, MUTAT_RATE) :
                     \E h2 \in mutation(h1, c.child_b, SEARCH_MIN, SEARCH_MAX, MUTAT_RATE) :
                        /\ heap' = h2
                        /\ new_population' = new_population \o <<c.child_a, c.child_b>>
                        /\ pc' = "EVOLVE_LOOP"
    /\ UNCHANGED <<config, e, population, elites, tournament, t_n, mating_pool,
                   best_fitness, init_best>>

\* line 73, then lines 34-35 and the loop header of line 20
EvolveReturn ==
    /\ pc = "EVOLVE_LOOP"
    /\ Len(new_population) >= POP_SIZE
    /\ population' = new_population
    /\ mating_pool' = <<>>
    /\ IF e < epochs
       THEN /\ e' = e + 1
            /\ pc' = "SORT"
       ELSE /\ e' = e
            /\ pc' = "FINAL_SORT"
    /\ UNCHANGED <<config, heap, elites, tournament, t_n, new_population,
                   best_fitness, init_best>>

\* line 37
FinalSort ==
    /\ pc = "FINAL_SORT"
    /\ LET s == sorted(population, heap, function)
       IN  /\ heap' = Renumbered(s, heap)
           /\ population' = Indices(s)
    /\ elites' = <<>>
    /\ tournament' = <<>>
    /\ new_population' = <<>>
    /\ t_n' = 0
    /\ pc' = "REPORT"
    /\ UNCHANGED <<config, e, mating_pool, best_fitness, init_best>>

\* lines 38-39
Report ==
    /\ pc = "REPORT"
    /\ best_fitness' = Apply(function, heap[population[1]])
    /\ pc' = "DONE"
    /\ UNCHANGED <<config, e, heap, population, elites, tournament, t_n, mating_pool,
                   new_population, init_best>>

Next ==
    \/ Sort
    \/ SelectElites
    \/ TournamentEnter
    \/ TournamentPop
    \/ TournamentReturn
    \/ EvolveEnter
    \/ EvolveStep
    \/ EvolveReturn
    \/ FinalSort
    \/ Report

Spec == Init /\ [][Next]_vars

(***************************************************************************)
(* crossover on its own: one call on two parents of up to MaxCrossDim      *)
(* coordinates, held at identities 1 and 2.                                *)
(***************************************************************************)
InitCross ==
    /\ POP_SIZE = 2
    /\ CROSS_RATE \in Rates
    /\ MUTAT_RATE = <<0, 1>>
    /\ el_p = <<1, 1>>
    /\ to_p = <<1, 1>>
    /\ dim \in 1..MaxCrossDim
    /\ epochs = 1
    /\ function = "styb_tang"
    /\ e = 1
    /\ pc = "CROSSOVER"
    /\ heap \in initialize_population(2, dim, SEARCH_MIN, SEARCH_MAX)
    /\ population = <<>>
    /\ elites = <<>>
    /\ tournament = <<>>
    /\ t_n = 0
    /\ mating_pool = <<1, 2>>
    /\ new_population = <<>>
    /\ best_fitness = "None"
    /\ init_best = 0

\* line 66: child_a, child_b = crossover(parent_a, parent_b)
CrossoverCall ==
    /\ pc = "CROSSOVER"
    /\ \E c \in crossover(heap, mating_pool[1], mating_pool[2], CROSS_RATE) :
         IF c.raised
         THEN /\ pc' = "ValueError"
              /\ UNCHANGED <<heap, new_population>>
         ELSE /\ heap' = c.heap
              /\ new_population' = <<c.child_a, c.child_b>>
              /\ pc' = "CROSSED"
    /\ UNCHANGED <<config, e, population, elites, tournament, t_n, mating_pool,
                   best_fitness, init_best>>

NextCross == CrossoverCall

SpecCross == InitCross /\ [][NextCross]_vars

(***************************************************************************)
(* Properties.                                                             *)
(***************************************************************************)
Zero == <<0, 1>>
One == <<1, 1>>

IsProportion(x) == RatLess(Zero, x) /\ RatLeq(x, One)
IsRate(x) == RatLeq(Zero, x) /\ RatLeq(x, One)

\* the population the current generation started from, once it is sorted:
\* the elites, the tournament's entrants and what is left
StartedFrom == elites \o tournament \o population

\* the run has left evolve with its new population
Replaced == pc = "EVOLVE_LOOP" /\ (pc' = "SORT" \/ pc' = "FINAL_SORT")

\* C1: with pop_size >= 2 and both proportions in (0,1], the population has
\* exactly pop_size individuals at the start of every generation and after
\* every replacement.
C1_PopulationSize ==
    (POP_SIZE >= 2 /\ IsProportion(el_p) /\ IsProportion(to_p))
        => (pc \in {"SORT", "FINAL_SORT"} => Len(population) = POP_SIZE)

\* a replacement does not lose the best fitness
BestKept ==
    (RatLess(Zero, el_p) /\ Replaced)
        => BestOf(population', heap', function) <= BestOf(StartedFrom, heap, function)

\* C2: with elite_proportion > 0, the best fitness of the population a
\* generation produces is at most the best fitness of the population it
\* started from, and the reported best fitness is at most the best fitness
\* of the initial population.
C2_ElitismMonotone ==
    /\ [][BestKept]_vars
    /\ []((RatLess(Zero, el_p) /\ pc = "DONE") => best_fitness <= init_best)

C2_Witness ==
    /\ pc = "DONE"
    /\ RatLess(Zero, el_p)
    /\ epochs = MaxEpochs
    /\ best_fitness < init_best

\* C3: every coordinate of every point the run holds (population, elites,
\* tournament, mating pool, children) lies in [SEARCH_MIN, SEARCH_MAX].
C3_Bounds ==
    SEARCH_MIN <= SEARCH_MAX
        => \A id \in DOMAIN heap : \A i \in DOMAIN heap[id] :
               SEARCH_MIN <= heap[id][i] /\ heap[id][i] <= SEARCH_MAX

\* a child mutated in every coordinate sits on both bounds, in the second
\* generation
C3_Witness ==
    /\ pc = "EVOLVE_LOOP"
    /\ MUTAT_RATE = One
    /\ e > 1
    /\ \E k \in (Len(elites) + 1)..Len(new_population) :
         \E m \in (Len(elites) + 1)..Len(new_population) :
            /\ heap[new_population[k]][1] = SEARCH_MIN
            /\ heap[new_population[m]][1] = SEARCH_MAX

\* C4: for every configuration in the documented ranges the run never
\* aborts with an error, and it is done after exactly epochs generations.
C4_RunCompletes ==
    (/\ IsProportion(el_p) /\ IsProportion(to_p)
     /\ dim >= 1 /\ epochs >= 1 /\ POP_SIZE >= 2
     /\ IsRate(CROSS_RATE) /\ IsRate(MUTAT_RATE))
        => /\ pc \notin {"IndexError", "ValueError"}
           /\ pc \in {"FINAL_SORT", "REPORT", "DONE"} => e = epochs

\* C5: the run is never inside evolve's resampling loop with a mating pool
\* of one entry while offspring are still needed (it would have ended in a
\* DegenerateMatingPool error).
C5_DegeneratePoolDetected ==
    ~(/\ pc = "EVOLVE_LOOP"
      /\ Len(mating_pool) = 1
      /\ Len(new_population) < POP_SIZE)

\* C6: the tournament's winner has the least fitness, under the function
\* given to the run, among the tournament's entrants.
C6_WinnerBestUnderFunction ==
    (pc = "EVOLVE" /\ IsProportion(el_p) /\ IsProportion(to_p))
        => \A id \in Range(tournament) :
               Apply(function, heap[mating_pool[Len(mating_pool)]])
                   <= Apply(function, heap[id])

\* the two parents and the two children of the crossover call
ParentA == heap[mating_pool[1]]
ParentB == heap[mating_pool[2]]
ChildA == heap[new_population[1]]
ChildB == heap[new_population[2]]

CopiesOfParents ==
    /\ ChildA = ParentA
    /\ ChildB = ParentB
    /\ {new_population[1], new_population[2]} \cap Range(mating_pool) = {}

\* child_a[:p] == a[:p], child_a[p:] == b[p:], child_b[:p] == b[:p],
\* child_b[p:] == a[p:]
RecombinedAt(p) ==
    /\ SubSeq(ChildA, 1, p) = SubSeq(ParentA, 1, p)
    /\ SubSeq(ChildA, p + 1, dim) = SubSeq(ParentB, p + 1, dim)
    /\ SubSeq(ChildB, 1, p) = SubSeq(ParentB, 1, p)
    /\ SubSeq(ChildB, p + 1, dim) = SubSeq(ParentA, p + 1, dim)
    /\ Len(ChildA) = dim
    /\ Len(ChildB) = dim

\* C7: for dim >= 2 crossover returns copies of the parents or their
\* recombination at a pivot p with 1 <= p <= dim-1, and with cross_rate = 0
\* it returns copies for every draw.
C7_Crossover ==
    (dim >= 2 /\ pc \notin {"CROSSOVER"})
        => /\ pc = "CROSSED"
           /\ CopiesOfParents \/ \E p \in 1..(dim - 1) : RecombinedAt(p)
           /\ CROSS_RATE = Zero => CopiesOfParents

\* a recombination at pivot 2 of 4 that is no copy and no recombination at
\* another pivot
C7_Witness ==
    /\ pc = "CROSSED"
    /\ dim = 4
    /\ RecombinedAt(2)
    /\ ~CopiesOfParents
    /\ ~RecombinedAt(1)
    /\ ~RecombinedAt(3)

\* C8: for dim = 1 crossover returns copies of the two parents, for every
\* rate and every draw.
C8_DimOneCopies ==
    (dim = 1 /\ pc \notin {"CROSSOVER"})
        => /\ pc = "CROSSED"
           /\ CopiesOfParents

\* a step of evolve leaves the points of the mating pool and of the elites
\* as they are, and the population it returns begins with the elites
ParentsKept ==
    pc \in {"EVOLVE", "EVOLVE_LOOP"}
        => /\ \A id \in Range(mating_pool) \cup Range(elites) :
                 id \in DOMAIN heap' /\ heap'[id] = heap[id]
           /\ Replaced => SubSeq(population', 1, Len(elites)) = elites

\* C9: the new population begins with the elite list in its order, no pass
\* of evolve changes a point of the mating pool or of the elites, and no
\* child is stored where a parent is.
C9_ElitesVerbatim ==
    /\ [][ParentsKept]_vars
    /\ [](pc = "EVOLVE_LOOP"
            => /\ Len(new_population) >= Len(elites)
               /\ SubSeq(new_population, 1, Len(elites)) = elites
               /\ \A k \in (Len(elites) + 1)..Len(new_population) :
                     new_population[k] \notin Range(mating_pool) \cup Range(elites))

\* a child that was copied from an elite and then mutated away from it
C9_Witness ==
    /\ pc = "EVOLVE_LOOP"
    /\ Len(elites) >= 1
    /\ CROSS_RATE = Zero
    /\ Len(new_population) > Len(elites)
    /\ \A id \in Range(mating_pool) :
          heap[new_population[Len(elites) + 1]] # heap[id]

\* tournament_selection's loop is over
TournamentOver == pc = "TOURNAMENT_LOOP" /\ Len(tournament) >= t_n

\* the sorted population of this generation: Sort leaves nothing else in
\* the heap, and nothing is allocated before evolve
SortedIds == DOMAIN heap

\* the entrants stand at pairwise distinct positions of the elite-depleted
\* population, and the working population lost exactly them
DrawnWithoutReplacement ==
    /\ Cardinality(Range(tournament)) = Len(tournament)
    /\ Range(tournament) \subseteq SortedIds \ Range(elites)
    /\ Range(population) = (SortedIds \ Range(elites)) \ Range(tournament)
    /\ Len(population) = Cardinality(SortedIds) - Len(elites) - Len(tournament)

\* C10 as stated: the tournament has ceil(pop_size * tournament_proportion)
\* entrants, drawn without replacement from the elite-depleted population
\* (looked at in generations that start with pop_size individuals and leave
\* some of them to the tournament).
C10_Original ==
    (/\ TournamentOver
     /\ Cardinality(SortedIds) = POP_SIZE
     /\ Len(elites) < POP_SIZE
     /\ IsProportion(el_p))
        => /\ Len(tournament) = ceil(POP_SIZE, to_p)
           /\ DrawnWithoutReplacement

\* C10 amended: the tournament has ceil(n * tournament_proportion) entrants,
\* n the size of the elite-depleted population, drawn without replacement
\* from it.
C10_TournamentPool ==
    TournamentOver
        => /\ Len(tournament) = ceil(Cardinality(SortedIds) - Len(elites), to_p)
           /\ DrawnWithoutReplacement

C10_Witness ==
    /\ TournamentOver
    /\ Len(elites) >= 1
    /\ Len(tournament) >= 2

====
